---- MODULE Spec2Model ----
(***************************************************************************)
(* Campus Companion: the single-page campus portal of                      *)
(* src/campus companion/deepseek_javascript_20251204_756371.js.            *)
(*                                                                         *)
(* Text is modelled as a sequence of characters (one-character strings, or *)
(* an opaque non-blank token such as a time of day).  Clock values are     *)
(* milliseconds counted from the UTC midnight of a reference day, so that  *)
(* they fit the integers of the model checker; Date.now() only ever reads  *)
(* the clock.                                                              *)
(*                                                                         *)
(* A form is "reset" or "filled"; what the user has typed is the input of  *)
(* the submit action.  Notifications, per-field error messages, avatars    *)
(* and the mobile menu are written by the handlers and read by none of     *)
(* them; they are left out.  While appState.isLoading the submit buttons   *)
(* are disabled, so no form is submitted while a login is in flight.  A    *)
(* handler the user starts (a submit, a button, a link) comes with the     *)
(* click or keypress that the document listeners record, so its action     *)
(* runs updateUserActivity as well; a movement of the mouse or a scroll    *)
(* that starts no handler is the action UserActivity.  Timer callbacks and *)
(* the answers to confirm() dialogs raise no document event.               *)
(* The markup is not part of the source: every section and every element   *)
(* the handlers look up is taken to exist, and the user form to read its   *)
(* own name input.                                                         *)
(***************************************************************************)
EXTENDS Integers, Sequences, FiniteSets, TLC

VARIABLES
    currentUser,      \* let currentUser: Null or [name, email, type]
    appState,         \* [isLoading, lastActivity, currentSection]
    database,         \* [announcements, events, schedules, users]: sequences
    userProfileData,  \* [student, admin]: the per-role profile records
    dom,              \* the part of the document the handlers write
    timers,           \* pending setTimeout callbacks, in registration order
    now,              \* the clock Date.now() reads
    tz,               \* the local UTC offset, in ms (east positive)
    probe,            \* argument and result of a validateForm call
    dialog            \* the confirm() a handler is waiting in, if any

vars == <<currentUser, appState, database, userProfileData, dom, timers, now, tz, probe,
          dialog>>

\* JavaScript null: a value with none of the fields of a record
Null == [null |-> TRUE]

----------------------------------------------------------------------------
(* Text *)

Whitespace == {" ", "\t"}

RECURSIVE TrimStart(_)
TrimStart(s) ==
    IF s = <<>> THEN <<>>
    ELSE IF Head(s) \in Whitespace THEN TrimStart(Tail(s)) ELSE s

RECURSIVE TrimEnd(_)
TrimEnd(s) ==
    IF s = <<>> THEN <<>>
    ELSE IF s[Len(s)] \in Whitespace THEN TrimEnd(SubSeq(s, 1, Len(s) - 1)) ELSE s

\* String.prototype.trim
Trim(s) == TrimEnd(TrimStart(s))

\* [^\s@]+ : a non-empty run without whitespace and without "@"
PlainRun(s, from, to) ==
    /\ from <= to
    /\ \A k \in from..to : s[k] \notin Whitespace /\ s[k] # "@"

\* /^[^\s@]+@[^\s@]+\.[^\s@]+$/.test(email)
validateEmail(email) ==
    \E i \in 1..Len(email) : \E j \in 1..Len(email) :
        /\ email[i] = "@"
        /\ email[j] = "."
        /\ PlainRun(email, 1, i - 1)
        /\ PlainRun(email, i + 1, j - 1)
        /\ PlainRun(email, j + 1, Len(email))

MinPasswordLength == 8

\* formData[field] as a JavaScript condition: present and not the empty string
Truthy(formData, field) == field \in DOMAIN formData /\ formData[field] # <<>>

NoError == "none"

FieldErrorNoTrim(formData, field) ==
    IF field = "email" /\ Truthy(formData, field) /\ ~validateEmail(formData[field])
    THEN "Please enter a valid email address"
    ELSE IF field = "password" /\ Truthy(formData, field)
            /\ Len(formData[field]) < MinPasswordLength
    THEN "Password must be at least 8 characters"
    ELSE IF ~Truthy(formData, field)
    THEN "is required"
    ELSE NoError

\* The error validateForm leaves in errors[field] once its loop body has run
\* for the field: the special validations overwrite the "is required" entry.
FieldError(formData, field) ==
    IF field = "email" /\ Truthy(formData, field) /\ ~validateEmail(formData[field])
    THEN "Please enter a valid email address"
    ELSE IF field = "password" /\ Truthy(formData, field)
            /\ Len(formData[field]) < MinPasswordLength
    THEN "Password must be at least 8 characters"
    ELSE IF ~Truthy(formData, field) \/ Trim(formData[field]) = <<>>
    THEN "is required"
    ELSE NoError

validateForm(formData, requiredFields) ==
    LET failing == {f \in requiredFields : FieldError(formData, f) # NoError}
    IN  [isValid |-> failing = {},
         errors  |-> [f \in failing |-> FieldError(formData, f)]]

----------------------------------------------------------------------------
(* Time and dates *)

MsPerHour == 60 * 60 * 1000
MsPerDay == 24 * MsPerHour

\* appState.sessionTimeout
sessionTimeout == 30 * 60 * 1000

\* setTimeout(..., 1000) of the simulated API call and of the redirect
ApiDelay == 1000
RedirectDelay == 1000

\* The calendar around the day the page is loaded.  Day d (counted from the
\* reference day, 2025-12-01) is written IsoDates[d + 1] by a date input and
\* LongDates[d + 1] by toLocaleDateString('en-US', {month: 'long', ...}).
IsoDates ==
    <<"2025-12-01", "2025-12-02", "2025-12-03", "2025-12-04",
      "2025-12-05", "2025-12-06", "2025-12-07", "2025-12-08">>
LongDates ==
    <<"December 1, 2025", "December 2, 2025", "December 3, 2025", "December 4, 2025",
      "December 5, 2025", "December 6, 2025", "December 7, 2025", "December 8, 2025">>

Days == 0..(Len(IsoDates) - 1)

\* the value of an <input type="date"> showing day d
IsoDate(d) == <<IsoDates[d + 1]>>

\* new Date("YYYY-MM-DD").getTime(): a date-only string is UTC midnight
ParseDate(dateString) ==
    LET d == CHOOSE x \in Days : IsoDates[x + 1] = dateString[1] IN d * MsPerDay

\* the local calendar day of a clock value
LocalDay(t, offset) == (t + offset) \div MsPerDay

\* new Date(); today.setHours(0, 0, 0, 0); today.getTime()
LocalMidnight(t, offset) == LocalDay(t, offset) * MsPerDay - offset

\* new Date().toLocaleDateString('en-US', {month:'long', day:'numeric', year:'numeric'})
TodayString(t, offset) == <<LongDates[LocalDay(t, offset) + 1]>>

\* The UTC offsets and loading times of day the model is run under:
\* west of Greenwich in the early UTC hours (the local day is the previous
\* UTC day), Greenwich at noon, east of Greenwich late in the UTC day (the
\* local day is the next UTC day).  The page is loaded on 2025-12-04 UTC.
LoadDay == 3
Environments ==
    { [tz |-> 0 - 5 * MsPerHour, load |-> LoadDay * MsPerDay + 2 * MsPerHour],
      [tz |-> 0,                 load |-> LoadDay * MsPerDay + 12 * MsPerHour],
      [tz |-> 3 * MsPerHour,     load |-> LoadDay * MsPerDay + 22 * MsPerHour] }

LoadTime(offset) == (CHOOSE e \in Environments : e.tz = offset).load

\* How far the clock is let run: MaxAdvances steps, each of ApiDelay or of
\* sessionTimeout.
MaxAdvances == 4
ClockSteps == {ApiDelay, sessionTimeout}
AdvancesUsed(t, offset) ==
    LET elapsed == t - LoadTime(offset)
    IN  (elapsed \div sessionTimeout) + ((elapsed % sessionTimeout) \div ApiDelay)

----------------------------------------------------------------------------
(* The store and the document *)

Collections == {"announcements", "events", "schedules", "users"}
Forms == {"loginForm", "registerForm", "announcementForm", "eventForm",
          "scheduleForm", "userForm"}
Sections == {"home", "login", "register", "dashboard", "profile", "features"}

\* database.init: the sample data (database.users stays [])
SeedDatabase ==
    [announcements |->
        << [id |-> 1, title |-> <<"Midterm Project Submission Deadline Extended">>,
            content |-> <<"The deadline for midterm project submissions has been extended to December 20, 2025.">>,
            priority |-> <<"important">>, date |-> <<"December 15, 2025">>,
            author |-> <<"Academic Office">>],
           [id |-> 2, title |-> <<"Campus Maintenance - Library Closed on Saturday">>,
            content |-> <<"The main library will be closed this Saturday for scheduled maintenance. E-resources will remain available.">>,
            priority |-> <<"normal">>, date |-> <<"December 12, 2025">>,
            author |-> <<"Facilities Management">>],
           [id |-> 3, title |-> <<"Career Fair - December 5-7, 2025">>,
            content |-> <<"Annual career fair featuring top companies. Register through the career portal.">>,
            priority |-> <<"urgent">>, date |-> <<"December 10, 2025">>,
            author |-> <<"Career Services">>] >>,
     events |->
        << [id |-> 1, title |-> <<"Tech Club Meeting">>,
            description |-> <<"Monthly meeting for tech enthusiasts. Discuss latest trends and projects.">>,
            date |-> <<"2025-12-20">>, time |-> <<"14:00">>,
            location |-> <<"Student Center">>, organizer |-> <<"Tech Club">>],
           [id |-> 2, title |-> <<"Guest Lecture: AI in Education">>,
            description |-> <<"Join us for an insightful lecture on AI applications in modern education.">>,
            date |-> <<"2025-12-25">>, time |-> <<"10:00">>,
            location |-> <<"Auditorium A">>, organizer |-> <<"Computer Science Dept">>],
           [id |-> 3, title |-> <<"Annual Career Fair">>,
            description |-> <<"Connect with top employers and explore career opportunities.">>,
            date |-> <<"2025-12-30">>, time |-> <<"09:00">>,
            location |-> <<"Sports Complex">>, organizer |-> <<"Career Services">>] >>,
     schedules |->
        << [id |-> 1, course |-> <<"APT3065 - Software Engineering">>,
            date |-> <<"2025-12-15">>, time |-> <<"08:00">>,
            room |-> <<"TC-304">>, instructor |-> <<"Dr. Smith">>],
           [id |-> 2, course |-> <<"APT3070 - Database Systems">>,
            date |-> <<"2025-12-15">>, time |-> <<"10:30">>,
            room |-> <<"TC-301">>, instructor |-> <<"Prof. Johnson">>],
           [id |-> 3, course |-> <<"APT3080 - Web Development">>,
            date |-> <<"2025-12-15">>, time |-> <<"14:00">>,
            room |-> <<"TC-310">>, instructor |-> <<"Dr. Williams">>] >>,
     users |-> << >>]

\* const userProfileData
SeedProfiles ==
    [student |-> [id |-> <<"669430">>,
                  program |-> <<"Bachelor of Science in Information Systems & Technology">>,
                  phone |-> <<"+254 712 345 678">>,
                  address |-> <<"USIU-Africa, Thika Road">>,
                  email |-> <<"carl.kitusa@usiu.ac.ke">>],
     admin   |-> [id |-> <<"ADM001">>,
                  department |-> <<"Administration">>,
                  phone |-> <<"+254 711 222 333">>,
                  address |-> <<"USIU-Africa, Administration Building">>,
                  email |-> <<"admin@usiu.ac.ke">>]]

Ids(records) == [i \in 1..Len(records) |-> records[i].id]

\* renderAnnouncements / renderEvents / renderSchedules / renderUsers: the
\* placeholder when the collection is empty, else one item per record, each
\* with a delete button for the record's id
RenderList(records) == [empty |-> records = <<>>, items |-> Ids(records)]

NoText == <<>>

\* What the markup shows before any handler has written to it.
MarkupProfileInfo ==
    [mode |-> "markup", role |-> NoText, name |-> NoText, email |-> NoText,
     id |-> NoText, program |-> NoText, phone |-> NoText, address |-> NoText]

Student == <<"student">>
Admin == <<"admin">>

\* currentUser.type === 'admin' ? 'Administrator' : 'Student'
RoleLabel(type) == IF type = Admin THEN <<"Administrator">> ELSE <<"Student">>

\* userProfileData[currentUser.type]
ProfileOf(profiles, type) == profiles[type[1]]

setLoading(state, isLoading) == [state EXCEPT !.isLoading = isLoading]

\* updateUserActivity
updateUserActivity(state, t) == [state EXCEPT !.lastActivity = t]

\* updateDashboard (openAdminTab('announcements') for an administrator)
updateDashboard(d, user) ==
    IF user # Null /\ user.type = Admin
    THEN [d EXCEPT !.dashboard = "admin", !.adminTab = "announcements"]
    ELSE [d EXCEPT !.dashboard = "student"]

\* updateAuthButtons
updateAuthButtons(d, user) ==
    [d EXCEPT !.authButtons = IF user # Null THEN "dashboard" ELSE "login-register"]

\* renderProfile(editMode)
renderProfile(d, user, profiles, editMode) ==
    IF user = Null THEN d
    ELSE LET profileData == ProfileOf(profiles, user.type)
         IN  [d EXCEPT !.profileInfo =
                 [mode    |-> IF editMode THEN "edit" ELSE "view",
                  role    |-> user.type,
                  name    |-> IF editMode THEN user.name ELSE NoText,
                  email   |-> IF editMode THEN user.email ELSE NoText,
                  id      |-> profileData.id,
                  program |-> IF user.type = Admin THEN profileData.department
                                                            ELSE profileData.program,
                  phone   |-> profileData.phone,
                  address |-> profileData.address]]

\* onSectionShow
onSectionShow(d, user, profiles, sectionId) ==
    IF sectionId = "profile" /\ user # Null THEN renderProfile(d, user, profiles, FALSE)
    ELSE IF sectionId = "dashboard" /\ user # Null THEN updateDashboard(d, user)
    ELSE d

ShowSectionDomKeepsOthers(d, user, profiles, sectionId) ==
    onSectionShow([d EXCEPT !.visible = @ \cup {sectionId}, !.activeNav = sectionId],
                  user, profiles, sectionId)

\* showSection, the document part: every section hidden, the target shown,
\* the navigation link marked, the section's own logic run
ShowSectionDom(d, user, profiles, sectionId) ==
    onSectionShow([d EXCEPT !.visible = (@ \ Sections) \cup {sectionId},
                            !.activeNav = sectionId],
                  user, profiles, sectionId)

\* showSection, the appState part
ShowSectionState(state, sectionId, t) ==
    updateUserActivity([state EXCEPT !.currentSection = sectionId], t)

clearFormsButAdmin(d) ==
    [d EXCEPT !.forms = [f \in Forms |->
        IF f \in {"loginForm", "registerForm"} THEN "reset" ELSE d.forms[f]]]

\* clearForms: all six forms reset
clearForms(d) == [d EXCEPT !.forms = [f \in Forms |-> "reset"]]

\* an exception no handler catches ends the handler and is reported on the
\* console; reading currentUser.name of a null currentUser raises this one
NullNameError == "TypeError: Cannot read properties of null (reading 'name')"
Throw(d, error) == [d EXCEPT !.console = @ \cup {error}]

\* form.reset()
ResetForm(d, f) == [d EXCEPT !.forms[f] = "reset"]
\* the user has typed into the form
FillForm(d, f) == [d EXCEPT !.forms[f] = "filled"]

\* confirm() blocks the page: while its dialog is open no other handler and
\* no timer callback runs.  The answer to a handler's confirm() is an input of
\* its action; checkSessionTimeout, which calls logout() and so asks twice, is
\* cut at the second confirm(), and dialog holds that position.
\* setLoading(true) disables every submit button until setLoading(false)
SubmitEnabled == ~appState.isLoading

NoDialog == "none"
LogoutDialog == "Are you sure you want to logout?"
Idle == dialog = NoDialog

----------------------------------------------------------------------------
(* Initial state: the script has been evaluated and init() has run *)

Init ==
    /\ \E e \in Environments : tz = e.tz /\ now = e.load
    /\ currentUser = Null
    /\ appState = [isLoading |-> FALSE, lastActivity |-> now, currentSection |-> "home"]
    /\ database = SeedDatabase
    /\ userProfileData = SeedProfiles
    /\ dom = [forms         |-> [f \in Forms |-> "reset"],
              lists         |-> [c \in Collections |-> RenderList(SeedDatabase[c])],
              visible       |-> {"home"},
              activeNav     |-> "home",
              dashboard     |-> "markup",
              adminTab      |-> "markup",
              authButtons   |-> "login-register",
              userHeader    |-> [name |-> NoText, role |-> NoText],
              profileHeader |-> [name |-> NoText, role |-> NoText, email |-> NoText],
              profileInfo   |-> MarkupProfileInfo,
              console       |-> {}]
    /\ timers = << >>
    /\ probe = [formData |-> << >>, requiredFields |-> {},
                result |-> validateForm(<< >>, {})]
    /\ dialog = NoDialog

----------------------------------------------------------------------------
(* What the user types *)

EmailText == <<"a", "@", "b", ".", "c", "o", "m">>
EmailNoTld == <<"a", "@", "b">>
PasswordText == <<"1", "2", "3", "4", "5", "6", "7", "8">>
ShortPassword == <<"1", "2", "3", "4", "5", "6", "7">>

LoginInputs ==
    { [email |-> EmailText, password |-> PasswordText, userType |-> Student],
      [email |-> <<" ">> \o EmailText, password |-> PasswordText, userType |-> Admin],
      [email |-> EmailText, password |-> ShortPassword, userType |-> Student] }

RegisterInputs ==
    { [name |-> <<"Z">>, email |-> EmailText, password |-> PasswordText,
       userType |-> Student],
      [name |-> <<"Z">>, email |-> EmailNoTld, password |-> PasswordText,
       userType |-> Admin] }

AnnouncementInputs ==
    { [title |-> <<" ", "T">>, content |-> <<"C">>, priority |-> <<"urgent">>],
      [title |-> <<" ">>, content |-> <<"C">>, priority |-> <<"normal">>] }

\* the dates a user types: the day before the local day, the day, the day after
EventInputs(t, offset) ==
    { [title |-> <<"E">>, date |-> IsoDate(LocalDay(t, offset) + k), time |-> <<"14:00">>,
       location |-> <<"L">>, description |-> <<"D">>] : k \in {0 - 1, 0, 1} }
    \cup
    { [title |-> <<"E">>, date |-> NoText, time |-> <<"14:00">>,
       location |-> <<"L">>, description |-> <<"D">>] }

ScheduleInputs ==
    { [course |-> <<"S">>, date |-> IsoDate(LoadDay), time |-> <<"08:00">>,
       room |-> <<"R", " ">>, instructor |-> <<"I">>],
      [course |-> <<"S">>, date |-> IsoDate(LoadDay), time |-> <<"08:00">>,
       room |-> NoText, instructor |-> <<"I">>] }

UserInputs ==
    { [name |-> <<"U">>, email |-> EmailText, type |-> Student],
      [name |-> <<"U">>, email |-> EmailNoTld, type |-> Student] }

ProfileInputs ==
    { [name |-> <<"Q">>, email |-> <<"q">> \o EmailText, id |-> <<"7">>,
       program |-> <<"P">>, phone |-> <<"0">>, address |-> <<"A">>],
      [name |-> <<"Q">>, email |-> EmailText, id |-> <<"7">>,
       program |-> <<"P">>, phone |-> <<" ">>, address |-> <<"A">>] }

\* The ids a delete button is pressed for: every record the forms have
\* created, the second sample announcement, and an id (0) no record has.
DeleteIds(c) ==
    {0} \cup (IF c = "announcements" THEN {2} ELSE {})
        \cup {database[c][i].id :
                i \in {k \in 1..Len(database[c]) : database[c][k].id \notin 1..3}}

----------------------------------------------------------------------------
(* Bounds on the runs *)

\* records the forms may add, over the four collections
MaxNew == 2
\* setTimeout callbacks pending at once
MaxTimers == 2

IsSeed(record) == record.id \in 1..3
NewCount(db) ==
    Cardinality({<<c, i>> \in Collections \X (1..5 + MaxNew) :
                    i <= Len(db[c]) /\ ~IsSeed(db[c][i])})

\* a login or a registration is accepted while the clock leaves room for its
\* two delays
RoomForLogin == /\ Len(timers) < MaxTimers
                /\ AdvancesUsed(now, tz) + 2 <= MaxAdvances
RoomForRecord == NewCount(database) < MaxNew

----------------------------------------------------------------------------
(* Navigation *)

\* showSection(sectionId), from a navigation link or a button
ShowSection(sectionId) ==
    /\ Idle
    /\ appState' = ShowSectionState(appState, sectionId, now)
    /\ dom' = ShowSectionDom(dom, currentUser, userProfileData, sectionId)
    /\ UNCHANGED <<currentUser, database, userProfileData, timers, now, tz, probe, dialog>>

\* handleGetStarted
HandleGetStarted ==
    /\ dom.authButtons = "login-register"
    /\ ShowSection(IF currentUser # Null THEN "dashboard" ELSE "login")

\* a click, keypress, scroll or mousemove reaching the document listener
UserActivity ==
    /\ Idle
    /\ appState.lastActivity # now
    /\ appState' = updateUserActivity(appState, now)
    /\ UNCHANGED <<currentUser, database, userProfileData, dom, timers, now, tz, probe, dialog>>

\* the clock moves on, no further than the next pending callback
Advance(step) ==
    /\ Idle
    /\ AdvancesUsed(now, tz) < MaxAdvances
    /\ \A i \in 1..Len(timers) : timers[i].due >= now + step
    /\ now' = now + step
    /\ UNCHANGED <<currentUser, appState, database, userProfileData, dom, timers, tz, probe, dialog>>

----------------------------------------------------------------------------
(* Login and registration *)

LoginData(typed) ==
    [email |-> Trim(typed.email), password |-> Trim(typed.password),
     userType |-> typed.userType]

LoginRequired == {"email", "password", "userType"}

LoginSubmitNoReturn(typed) ==
    LET formData == LoginData(typed)
    IN  /\ Idle
        /\ SubmitEnabled
        /\ RoomForLogin
        /\ appState' = setLoading(updateUserActivity(appState, now), TRUE)
        /\ timers' = Append(timers, [callback |-> "login", formData |-> formData,
                                      due |-> now + ApiDelay])
        /\ dom' = FillForm(dom, "loginForm")
        /\ UNCHANGED <<currentUser, database, userProfileData, now, tz, probe, dialog>>

\* the submit handler of loginForm
LoginSubmit(typed) ==
    LET formData == LoginData(typed)
        validation == validateForm(formData, LoginRequired)
    IN  /\ Idle
        /\ SubmitEnabled
        /\ validation.isValid => RoomForLogin
        /\ IF ~validation.isValid
           THEN /\ appState' = updateUserActivity(appState, now)
                /\ UNCHANGED timers
           ELSE /\ appState' = setLoading(updateUserActivity(appState, now), TRUE)
                /\ timers' = Append(timers, [callback |-> "login", formData |-> formData,
                                              due |-> now + ApiDelay])
        /\ dom' = FillForm(dom, "loginForm")
        /\ UNCHANGED <<currentUser, database, userProfileData, now, tz, probe, dialog>>

RegisterData(typed) ==
    [name |-> Trim(typed.name), email |-> Trim(typed.email),
     password |-> Trim(typed.password), userType |-> typed.userType]

RegisterRequired == {"name", "email", "password", "userType"}

\* the submit handler of registerForm
RegisterSubmit(typed) ==
    LET formData == RegisterData(typed)
        validation == validateForm(formData, RegisterRequired)
    IN  /\ Idle
        /\ SubmitEnabled
        /\ validation.isValid => RoomForLogin
        /\ IF ~validation.isValid
           THEN /\ appState' = updateUserActivity(appState, now)
                /\ UNCHANGED timers
           ELSE /\ appState' = setLoading(updateUserActivity(appState, now), TRUE)
                /\ timers' = Append(timers, [callback |-> "register", formData |-> formData,
                                              due |-> now + ApiDelay])
        /\ dom' = FillForm(dom, "registerForm")
        /\ UNCHANGED <<currentUser, database, userProfileData, now, tz, probe, dialog>>

LoginUserAlwaysStudent(formData) ==
    [name  |-> <<"Carl Kitusa">>, email |-> formData.email, type  |-> formData.userType]

\* the user the login callback fabricates
LoginUser(formData) ==
    [name  |-> IF formData.userType = Admin THEN <<"Admin User">> ELSE <<"Carl Kitusa">>,
     email |-> formData.email,
     type  |-> formData.userType]

\* the user the registration callback fabricates
RegisterUser(formData) ==
    [name |-> formData.name, email |-> formData.email, type |-> formData.userType]

\* what both callbacks do once they have built the user
CompleteLogin(user) ==
    /\ appState' = setLoading(appState, FALSE)
    /\ currentUser' = user
    /\ dom' = updateAuthButtons(
                updateDashboard(
                    [dom EXCEPT
                        !.userHeader = [name |-> user.name, role |-> RoleLabel(user.type)],
                        !.profileHeader = [name |-> user.name, role |-> RoleLabel(user.type),
                                           email |-> user.email]],
                    user),
                user)
    /\ timers' = Append(Tail(timers),
                        [callback |-> "redirect", formData |-> Null,
                         due |-> now + RedirectDelay])
    /\ UNCHANGED <<database, userProfileData, now, tz, probe, dialog>>

TimerDue(callback) ==
    /\ Idle
    /\ timers # << >>
    /\ Head(timers).callback = callback
    /\ Head(timers).due <= now

\* the setTimeout callback of the login handler
LoginDone ==
    /\ TimerDue("login")
    /\ CompleteLogin(LoginUser(Head(timers).formData))

\* the setTimeout callback of the registration handler
RegisterDone ==
    /\ TimerDue("register")
    /\ CompleteLogin(RegisterUser(Head(timers).formData))

\* the inner setTimeout callback: showSection('dashboard')
Redirect ==
    /\ TimerDue("redirect")
    /\ appState' = ShowSectionState(appState, "dashboard", now)
    /\ dom' = ShowSectionDom(dom, currentUser, userProfileData, "dashboard")
    /\ timers' = Tail(timers)
    /\ UNCHANGED <<currentUser, database, userProfileData, now, tz, probe, dialog>>

----------------------------------------------------------------------------
(* The four record forms *)

\* Array.prototype.unshift
UnshiftAtEnd(records, record) == Append(records, record)
Unshift(records, record) == <<record>> \o records

InsertWithoutRender(c, record) ==
    /\ database' = [database EXCEPT ![c] = Unshift(@, record)]
    /\ dom' = ResetForm(dom, IF c = "announcements" THEN "announcementForm"
                             ELSE IF c = "events" THEN "eventForm"
                             ELSE IF c = "schedules" THEN "scheduleForm"
                             ELSE "userForm")

\* database[c].unshift(record); render<C>(); the list is drawn from the store
Insert(c, record) ==
    /\ database' = [database EXCEPT ![c] = Unshift(@, record)]
    /\ dom' = [ResetForm(dom, IF c = "announcements" THEN "announcementForm"
                              ELSE IF c = "events" THEN "eventForm"
                              ELSE IF c = "schedules" THEN "scheduleForm"
                              ELSE "userForm")
                 EXCEPT !.lists[c] = RenderList(Unshift(database[c], record))]

AnnouncementData(typed) ==
    [title |-> Trim(typed.title), content |-> Trim(typed.content),
     priority |-> typed.priority]

AnnouncementRequired == {"title", "content"}

NewAnnouncement(formData) ==
    [id |-> now, title |-> formData.title, content |-> formData.content,
     priority |-> formData.priority, date |-> TodayString(now, tz),
     author |-> currentUser.name]

\* the submit handler of announcementForm; with no current user the read of
\* currentUser.name throws before the record is stored
AnnouncementSubmit(typed) ==
    LET formData == AnnouncementData(typed)
        validation == validateForm(formData, AnnouncementRequired)
    IN  /\ Idle
        /\ SubmitEnabled
        /\ (validation.isValid /\ currentUser # Null) => RoomForRecord
        /\ IF validation.isValid /\ currentUser # Null
           THEN Insert("announcements", NewAnnouncement(formData))
           ELSE /\ dom' = IF validation.isValid
                           THEN Throw(FillForm(dom, "announcementForm"), NullNameError)
                           ELSE FillForm(dom, "announcementForm")
                /\ UNCHANGED database
        /\ appState' = updateUserActivity(appState, now)
        /\ UNCHANGED <<currentUser, userProfileData, timers, now, tz, probe, dialog>>

EventData(typed) ==
    [title |-> Trim(typed.title), date |-> typed.date, time |-> typed.time,
     location |-> Trim(typed.location), description |-> Trim(typed.description)]

EventRequired == {"title", "date", "time", "location", "description"}

\* eventDate < today
DateIsPast(dateString, t, offset) == ParseDate(dateString) < LocalMidnight(t, offset)

NewEvent(formData) ==
    [id |-> now, title |-> formData.title, description |-> formData.description,
     date |-> formData.date, time |-> formData.time, location |-> formData.location,
     organizer |-> currentUser.name]

EventAccepted(formData) ==
    /\ validateForm(formData, EventRequired).isValid
    /\ ~DateIsPast(formData.date, now, tz)

\* the submit handler of eventForm; with no current user the read of
\* currentUser.name throws before the record is stored
EventSubmit(typed) ==
    LET formData == EventData(typed)
    IN  /\ Idle
        /\ SubmitEnabled
        /\ (EventAccepted(formData) /\ currentUser # Null) => RoomForRecord
        /\ IF EventAccepted(formData) /\ currentUser # Null
           THEN Insert("events", NewEvent(formData))
           ELSE /\ dom' = IF EventAccepted(formData)
                           THEN Throw(FillForm(dom, "eventForm"), NullNameError)
                           ELSE FillForm(dom, "eventForm")
                /\ UNCHANGED database
        /\ appState' = updateUserActivity(appState, now)
        /\ UNCHANGED <<currentUser, userProfileData, timers, now, tz, probe, dialog>>

ScheduleData(typed) ==
    [course |-> Trim(typed.course), date |-> typed.date, time |-> typed.time,
     room |-> Trim(typed.room), instructor |-> Trim(typed.instructor)]

ScheduleRequired == {"course", "date", "time", "room", "instructor"}

NewSchedule(formData) ==
    [id |-> now, course |-> formData.course, date |-> formData.date,
     time |-> formData.time, room |-> formData.room, instructor |-> formData.instructor]

\* the submit handler of scheduleForm
ScheduleSubmit(typed) ==
    LET formData == ScheduleData(typed)
        validation == validateForm(formData, ScheduleRequired)
    IN  /\ Idle
        /\ SubmitEnabled
        /\ validation.isValid => RoomForRecord
        /\ IF validation.isValid
           THEN Insert("schedules", NewSchedule(formData))
           ELSE /\ dom' = FillForm(dom, "scheduleForm")
                /\ UNCHANGED database
        /\ appState' = updateUserActivity(appState, now)
        /\ UNCHANGED <<currentUser, userProfileData, timers, now, tz, probe, dialog>>

UserData(typed) ==
    [name |-> Trim(typed.name), email |-> Trim(typed.email), type |-> typed.type]

UserRequired == {"name", "email", "type"}

NewUser(formData) ==
    [id |-> now, name |-> formData.name, email |-> formData.email,
     type |-> formData.type]

\* the submit handler of userForm (validateForm, then validateEmail again)
UserSubmit(typed) ==
    LET formData == UserData(typed)
        validation == validateForm(formData, UserRequired)
        accepted == validation.isValid /\ validateEmail(formData.email)
    IN  /\ Idle
        /\ SubmitEnabled
        /\ accepted => RoomForRecord
        /\ IF accepted
           THEN Insert("users", NewUser(formData))
           ELSE /\ dom' = FillForm(dom, "userForm")
                /\ UNCHANGED database
        /\ appState' = updateUserActivity(appState, now)
        /\ UNCHANGED <<currentUser, userProfileData, timers, now, tz, probe, dialog>>

----------------------------------------------------------------------------
(* Deleting *)

\* Array.prototype.filter(r => r.id !== id)
RECURSIVE FilterOut(_, _)
FilterOut(records, id) ==
    IF records = << >> THEN << >>
    ELSE IF Head(records).id # id
         THEN <<Head(records)>> \o FilterOut(Tail(records), id)
         ELSE FilterOut(Tail(records), id)

DeleteUnasked(c, id, confirmed) ==
    /\ Idle
    /\ database' = [database EXCEPT ![c] = FilterOut(@, id)]
    /\ dom' = [dom EXCEPT !.lists[c] = RenderList(FilterOut(database[c], id))]
    /\ appState' = updateUserActivity(appState, now)
    /\ UNCHANGED <<currentUser, userProfileData, timers, now, tz, probe, dialog>>

\* deleteAnnouncement / deleteEvent / deleteSchedule / deleteUser, with the
\* answer given to confirm()
Delete(c, id, confirmed) ==
    /\ Idle
    /\ IF confirmed
       THEN /\ database' = [database EXCEPT ![c] = FilterOut(@, id)]
            /\ dom' = [dom EXCEPT !.lists[c] = RenderList(FilterOut(database[c], id))]
       ELSE UNCHANGED <<database, dom>>
    /\ appState' = updateUserActivity(appState, now)
    /\ UNCHANGED <<currentUser, userProfileData, timers, now, tz, probe, dialog>>

deleteAnnouncement(id, confirmed) == Delete("announcements", id, confirmed)
deleteEvent(id, confirmed) == Delete("events", id, confirmed)
deleteSchedule(id, confirmed) == Delete("schedules", id, confirmed)
deleteUser(id, confirmed) == Delete("users", id, confirmed)

----------------------------------------------------------------------------
(* Session *)

\* the body of logout(), with the answer given to its confirm()
LogoutBody(confirmed) ==
    IF confirmed
    THEN /\ currentUser' = Null
         /\ appState' = ShowSectionState(appState, "home", now)
         /\ dom' = ShowSectionDom(updateAuthButtons(clearForms(dom), Null),
                                  Null, userProfileData, "home")
    ELSE UNCHANGED <<currentUser, appState, dom>>

\* logout(), from the logout button
logout(confirmed) ==
    /\ Idle
    /\ IF confirmed
       THEN LogoutBody(TRUE)
       ELSE /\ appState' = updateUserActivity(appState, now)
            /\ UNCHANGED <<currentUser, dom>>
    /\ UNCHANGED <<database, userProfileData, timers, now, tz, probe, dialog>>

SessionExpiredWithoutUser == now - appState.lastActivity > sessionTimeout

\* currentUser && timeSinceLastActivity > appState.sessionTimeout
SessionExpired == currentUser # Null /\ now - appState.lastActivity > sessionTimeout

\* checkSessionTimeout, run by setInterval every minute, with the answer given
\* to its confirm(): on OK it calls logout(), which asks a confirm() of its own
checkSessionTimeout(confirmed) ==
    /\ Idle
    /\ dialog' = IF SessionExpired /\ confirmed THEN LogoutDialog ELSE NoDialog
    /\ UNCHANGED <<currentUser, appState, database, userProfileData, dom, timers, now, tz,
                   probe>>

\* the logout() that checkSessionTimeout called, from the answer to its confirm()
SessionLogout(confirmed) ==
    /\ dialog = LogoutDialog
    /\ dialog' = NoDialog
    /\ LogoutBody(confirmed)
    /\ UNCHANGED <<database, userProfileData, timers, now, tz, probe>>

----------------------------------------------------------------------------
(* Profile *)

\* renderProfile(true) from "Edit Profile", renderProfile(false) from "Cancel"
RenderProfile(editMode) ==
    /\ Idle
    /\ dom.profileInfo.mode = (IF editMode THEN "view" ELSE "edit")
    /\ dom' = renderProfile(dom, currentUser, userProfileData, editMode)
    /\ appState' = updateUserActivity(appState, now)
    /\ UNCHANGED <<currentUser, database, userProfileData, timers, now, tz, probe, dialog>>

ProfileData(typed) == [f \in DOMAIN typed |-> Trim(typed[f])]

\* saveProfile(), from "Save Changes" of the edit mode
SaveProfile(typed) ==
    LET v == ProfileData(typed)
        accepted == /\ currentUser # Null
                    /\ \A f \in DOMAIN v : v[f] # NoText
                    /\ validateEmail(v.email)
        user == [currentUser EXCEPT !.name = v.name, !.email = v.email]
        key == currentUser.type[1]
        profiles ==
            [userProfileData EXCEPT
                ![key] = IF currentUser.type = Admin
                         THEN [@ EXCEPT !.id = v.id, !.department = v.program,
                                        !.phone = v.phone, !.address = v.address,
                                        !.email = v.email]
                         ELSE [@ EXCEPT !.id = v.id, !.program = v.program,
                                        !.phone = v.phone, !.address = v.address,
                                        !.email = v.email]]
    IN  /\ Idle
        /\ dom.profileInfo.mode = "edit"
        /\ IF accepted
           THEN /\ currentUser' = user
                /\ userProfileData' = profiles
                /\ dom' = renderProfile(
                            [dom EXCEPT !.userHeader.name = user.name,
                                        !.profileHeader.name = user.name,
                                        !.profileHeader.email = user.email],
                            user, profiles, FALSE)
           ELSE UNCHANGED <<currentUser, userProfileData, dom>>
        /\ appState' = updateUserActivity(appState, now)
        /\ UNCHANGED <<database, timers, now, tz, probe, dialog>>

----------------------------------------------------------------------------
(* The application *)

Next ==
    \/ \E sectionId \in Sections : ShowSection(sectionId)
    \/ HandleGetStarted
    \/ UserActivity
    \/ \E step \in ClockSteps : Advance(step)
    \/ \E typed \in LoginInputs : LoginSubmit(typed)
    \/ \E typed \in RegisterInputs : RegisterSubmit(typed)
    \/ LoginDone
    \/ RegisterDone
    \/ Redirect
    \/ \E typed \in AnnouncementInputs : AnnouncementSubmit(typed)
    \/ \E typed \in EventInputs(now, tz) : EventSubmit(typed)
    \/ \E typed \in ScheduleInputs : ScheduleSubmit(typed)
    \/ \E typed \in UserInputs : UserSubmit(typed)
    \/ \E id \in DeleteIds("announcements"), ok \in BOOLEAN : deleteAnnouncement(id, ok)
    \/ \E id \in DeleteIds("events"), ok \in BOOLEAN : deleteEvent(id, ok)
    \/ \E id \in DeleteIds("schedules"), ok \in BOOLEAN : deleteSchedule(id, ok)
    \/ \E id \in DeleteIds("users"), ok \in BOOLEAN : deleteUser(id, ok)
    \/ \E ok \in BOOLEAN : logout(ok)
    \/ \E ok \in BOOLEAN : checkSessionTimeout(ok)
    \/ \E ok \in BOOLEAN : SessionLogout(ok)
    \/ \E editMode \in BOOLEAN : RenderProfile(editMode)
    \/ \E typed \in ProfileInputs : SaveProfile(typed)

Spec == Init /\ [][Next]_vars

----------------------------------------------------------------------------
(* Views of the application: the handlers of one concern, run from the same
   initial state, the rest of the application left idle *)

\* the inputs that pass, and that fail, the form's validateForm call
Passing(inputs, Data(_), required) ==
    {typed \in inputs : validateForm(Data(typed), required).isValid}
Failing(inputs, Data(_), required) ==
    {typed \in inputs : ~validateForm(Data(typed), required).isValid}

\* login and logout
NextLogin ==
    \/ \E step \in ClockSteps : Advance(step)
    \/ \E typed \in LoginInputs : LoginSubmit(typed)
    \/ LoginDone
    \/ Redirect
    \/ \E ok \in BOOLEAN : logout(ok)

\* registration as well
NextAuth ==
    \/ NextLogin
    \/ \E typed \in RegisterInputs : RegisterSubmit(typed)
    \/ RegisterDone

\* navigation, session timeout and profile on top of them
NextSession ==
    \/ NextAuth
    \/ \E sectionId \in Sections : ShowSection(sectionId)
    \/ HandleGetStarted
    \/ UserActivity
    \/ \E ok \in BOOLEAN : checkSessionTimeout(ok)
    \/ \E ok \in BOOLEAN : SessionLogout(ok)
    \/ \E editMode \in BOOLEAN : RenderProfile(editMode)
    \/ \E typed \in ProfileInputs : SaveProfile(typed)

SpecSession == Init /\ [][NextSession]_vars

\* The record store: an administrator or a student logs in (or nobody does),
\* one login at a time and no logout, and submits the four record forms with every required
\* field filled in, and presses delete buttons; the clock stops two steps early.
NextStore ==
    \/ AdvancesUsed(now, tz) + 2 < MaxAdvances /\ Advance(ApiDelay)
    \/ \E typed \in Passing(LoginInputs, LoginData, LoginRequired) :
            /\ timers = << >>
            /\ AdvancesUsed(now, tz) + 4 <= MaxAdvances
            /\ LoginSubmit(typed)
    \/ LoginDone
    \/ Redirect
    \/ \E typed \in Passing(AnnouncementInputs, AnnouncementData, AnnouncementRequired) :
            AnnouncementSubmit(typed)
    \/ \E typed \in Passing(EventInputs(now, tz), EventData, EventRequired) :
            EventSubmit(typed)
    \/ \E typed \in Passing(ScheduleInputs, ScheduleData, ScheduleRequired) :
            ScheduleSubmit(typed)
    \/ \E typed \in Passing(UserInputs, UserData, UserRequired) : UserSubmit(typed)
    \/ \E id \in DeleteIds("announcements"), ok \in BOOLEAN : deleteAnnouncement(id, ok)
    \/ \E id \in DeleteIds("events"), ok \in BOOLEAN : deleteEvent(id, ok)
    \/ \E id \in DeleteIds("schedules"), ok \in BOOLEAN : deleteSchedule(id, ok)
    \/ \E id \in DeleteIds("users"), ok \in BOOLEAN : deleteUser(id, ok)

SpecStore == Init /\ [][NextStore]_vars

SpecAuth == Init /\ [][NextAuth]_vars

\* The forms: logins and registrations, and submissions of the record forms
\* that the handlers turn down.
RejectedEvents(t, offset) ==
    {typed \in EventInputs(t, offset) : ~EventAccepted(EventData(typed))}

NextForms ==
    \/ NextAuth
    \/ \E typed \in Failing(AnnouncementInputs, AnnouncementData, AnnouncementRequired) :
            AnnouncementSubmit(typed)
    \/ \E typed \in RejectedEvents(now, tz) : EventSubmit(typed)
    \/ \E typed \in Failing(ScheduleInputs, ScheduleData, ScheduleRequired) :
            ScheduleSubmit(typed)
    \/ \E typed \in Failing(UserInputs, UserData, UserRequired) : UserSubmit(typed)

SpecForms == Init /\ [][NextForms]_vars

----------------------------------------------------------------------------
(* validateForm on its own: any form data, any list of required fields *)

ProbeFields == {"name", "email", "password"}
ProbeTexts ==
    { NoText, <<" ">>, <<"a">>, <<" ", "a", " ">>,
      EmailText, <<" ">> \o EmailText, EmailNoTld, <<"a", "@", ".", "c">>,
      <<"@", "b", ".", "c">>, <<"a", "@", "b", ".">>, <<"a", " ", "@", "b", ".", "c">>,
      <<"a", "@", "b", "@", "c", ".", "d">>, <<"a", "@", "b", ".", "c", ".", "d">>,
      PasswordText, ShortPassword, PasswordText \o <<"9">>,
      <<" ", " ", " ", " ", " ", " ", " ", " ">>,
      <<" ", "1", "2", "3", "4", "5", "6", " ">> }
ProbeForms ==
    UNION { [present -> ProbeTexts] : present \in SUBSET ProbeFields }

ValidateCall(formData, requiredFields) ==
    /\ probe' = [formData |-> formData, requiredFields |-> requiredFields,
                 result |-> validateForm(formData, requiredFields)]
    /\ UNCHANGED <<currentUser, appState, database, userProfileData, dom, timers, now, tz,
                   dialog>>

\* one call per behaviour: validateForm keeps no state between calls
NextValidate ==
    /\ probe.requiredFields = {} /\ probe.formData = << >>
    /\ \E formData \in ProbeForms, requiredFields \in SUBSET ProbeFields :
           ValidateCall(formData, requiredFields)

SpecValidate == Init /\ [][NextValidate]_vars

\* logins and registrations under the scheduling the browser guarantees: the
\* clock moves on and a callback that is due is run
SpecAuthFair ==
    /\ Init /\ [][NextAuth]_vars
    /\ WF_vars(\E step \in ClockSteps : Advance(step))
    /\ WF_vars(LoginDone)
    /\ WF_vars(RegisterDone)
    /\ WF_vars(Redirect)

\* The confirmations: somebody logs in, adds records from the dashboard and
\* leaves the page alone until the session has expired; the delete buttons,
\* logout and the session check ask, and are answered either way.
NextConfirm ==
    \/ (timers # << >> \/ now - appState.lastActivity >= sessionTimeout) /\ Advance(ApiDelay)
    \/ Advance(sessionTimeout)
    \/ \E typed \in Passing(LoginInputs, LoginData, LoginRequired) :
            currentUser = Null /\ timers = << >> /\ LoginSubmit(typed)
    \/ LoginDone
    \/ Redirect
    \/ \E typed \in Passing(AnnouncementInputs, AnnouncementData, AnnouncementRequired) :
            currentUser # Null /\ AnnouncementSubmit(typed)
    \/ \E typed \in Passing(EventInputs(now, tz), EventData, EventRequired) :
            currentUser # Null /\ EventSubmit(typed)
    \/ \E typed \in Passing(ScheduleInputs, ScheduleData, ScheduleRequired) :
            currentUser # Null /\ ScheduleSubmit(typed)
    \/ \E typed \in Passing(UserInputs, UserData, UserRequired) :
            currentUser # Null /\ UserSubmit(typed)
    \/ \E id \in DeleteIds("announcements"), ok \in BOOLEAN : deleteAnnouncement(id, ok)
    \/ \E id \in DeleteIds("events"), ok \in BOOLEAN : deleteEvent(id, ok)
    \/ \E id \in DeleteIds("schedules"), ok \in BOOLEAN : deleteSchedule(id, ok)
    \/ \E id \in DeleteIds("users"), ok \in BOOLEAN : deleteUser(id, ok)
    \/ \E ok \in BOOLEAN : logout(ok)
    \/ \E ok \in BOOLEAN : checkSessionTimeout(ok)
    \/ \E ok \in BOOLEAN : SessionLogout(ok)

SpecConfirm == Init /\ [][NextConfirm]_vars

\* The administrator's forms on screen: the dashboard section is shown with
\* its administrator part, as updateDashboard left it.
AdminFormsShown == "dashboard" \in dom.visible /\ dom.dashboard = "admin"

\* Logins and logouts, and the announcement and event forms submitted, with
\* fields their handlers accept, whenever they are on screen.
NextAdminForms ==
    \/ NextLogin
    \/ \E typed \in Passing(AnnouncementInputs, AnnouncementData, AnnouncementRequired) :
            AdminFormsShown /\ AnnouncementSubmit(typed)
    \/ \E typed \in EventInputs(now, tz) :
            AdminFormsShown /\ EventAccepted(EventData(typed)) /\ EventSubmit(typed)

SpecAdminForms == Init /\ [][NextAdminForms]_vars

\* The administrator's part of the dashboard, used whenever it is on screen:
\* logins and logouts, the schedule and user forms submitted with fields
\* their handlers accept, and the delete buttons of the four lists.
NextAdminPart ==
    \/ NextLogin
    \/ \E typed \in Passing(ScheduleInputs, ScheduleData, ScheduleRequired) :
            AdminFormsShown /\ ScheduleSubmit(typed)
    \/ \E typed \in Passing(UserInputs, UserData, UserRequired) :
            AdminFormsShown /\ UserSubmit(typed)
    \/ \E id \in DeleteIds("announcements"), ok \in BOOLEAN :
            AdminFormsShown /\ deleteAnnouncement(id, ok)
    \/ \E id \in DeleteIds("events"), ok \in BOOLEAN :
            AdminFormsShown /\ deleteEvent(id, ok)
    \/ \E id \in DeleteIds("schedules"), ok \in BOOLEAN :
            AdminFormsShown /\ deleteSchedule(id, ok)
    \/ \E id \in DeleteIds("users"), ok \in BOOLEAN :
            AdminFormsShown /\ deleteUser(id, ok)

SpecAdminPart == Init /\ [][NextAdminPart]_vars

----------------------------------------------------------------------------
(* Properties *)

NonBlank(s) == \E k \in 1..Len(s) : s[k] \notin Whitespace

\* local@domain.tld: one "@", no white space, something before the "@", and
\* after it a "." with something on both sides
EmailShape(s) ==
    /\ Cardinality({k \in 1..Len(s) : s[k] = "@"}) = 1
    /\ \A k \in 1..Len(s) : s[k] \notin Whitespace
    /\ LET at == CHOOSE k \in 1..Len(s) : s[k] = "@"
       IN  at > 1 /\ \E k \in (at + 2)..(Len(s) - 1) : s[k] = "."

\* C1: validateForm(M, R).isValid is true if and only if every field named in
\* R is non-empty after trimming, and (when "email" is in R) M.email has the
\* local@domain.tld shape, and (when "password" is in R) M.password has at
\* least 8 characters.
C1_ValidIffFieldsFilledAndShaped ==
    LET M == probe.formData
        R == probe.requiredFields
    IN  probe.result.isValid <=>
            /\ \A f \in R : f \in DOMAIN M /\ NonBlank(M[f])
            /\ "email" \in R => EmailShape(M.email)
            /\ "password" \in R => Len(M.password) >= 8

\* a call with all three fields required that validateForm accepts
C1_Witness ==
    /\ probe.requiredFields = ProbeFields
    /\ DOMAIN probe.formData = ProbeFields
    /\ probe.formData.name = <<" ", "a", " ">>
    /\ probe.result.isValid

\* the local calendar day, read off the clock
Today == CHOOSE d \in Days : d * MsPerDay <= now + tz /\ now + tz < (d + 1) * MsPerDay

\* the handler got as far as this.reset()
Succeeded(form) == dom'.forms[form] = "reset"

\* the collection is the new record, whatever its id, then the old records
InsertedFirst(c, record) ==
    /\ database'[c] # << >>
    /\ [Head(database'[c]) EXCEPT !.id = 0] = record
    /\ Tail(database'[c]) = database[c]
    /\ \A other \in Collections \ {c} : database'[other] = database[other]

\* C2: a successful submission of the announcement, event, schedule or user
\* form leaves the collection equal to the new record (the submitted values;
\* for an announcement also the chosen priority, today's date and the current
\* user's name as author) followed by its previous records in their previous
\* order, and leaves the other three collections unchanged.
C2_CreateInsertsAtFront ==
    [][ /\ \A typed \in AnnouncementInputs :
            AnnouncementSubmit(typed) /\ Succeeded("announcementForm") =>
                InsertedFirst("announcements",
                    [id |-> 0, title |-> Trim(typed.title), content |-> Trim(typed.content),
                     priority |-> typed.priority, date |-> <<LongDates[Today + 1]>>,
                     author |-> currentUser.name])
        /\ \A typed \in EventInputs(now, tz) :
            EventSubmit(typed) /\ Succeeded("eventForm") =>
                InsertedFirst("events",
                    [id |-> 0, title |-> Trim(typed.title),
                     description |-> Trim(typed.description), date |-> typed.date,
                     time |-> typed.time, location |-> Trim(typed.location),
                     organizer |-> currentUser.name])
        /\ \A typed \in ScheduleInputs :
            ScheduleSubmit(typed) /\ Succeeded("scheduleForm") =>
                InsertedFirst("schedules",
                    [id |-> 0, course |-> Trim(typed.course), date |-> typed.date,
                     time |-> typed.time, room |-> Trim(typed.room),
                     instructor |-> Trim(typed.instructor)])
        /\ \A typed \in UserInputs :
            UserSubmit(typed) /\ Succeeded("userForm") =>
                InsertedFirst("users",
                    [id |-> 0, name |-> Trim(typed.name), email |-> Trim(typed.email),
                     type |-> typed.type])
      ]_vars

\* the administrator's urgent announcement is first in the list, the three
\* sample announcements follow
C2_Witness ==
    /\ Len(database.announcements) = 4
    /\ Head(database.announcements).author = <<"Admin User">>
    /\ Head(database.announcements).priority = <<"urgent">>
    /\ Head(database.announcements).title = <<"T">>
    /\ Ids(Tail(database.announcements)) = <<1, 2, 3>>
    /\ dom.forms.announcementForm = "reset"

\* C3: within each of the four collections no two records have the same id,
\* also after two creations in the same collection at the same clock value.
C3_IdsUnique ==
    \A c \in Collections :
        \A i \in 1..Len(database[c]) : \A j \in 1..Len(database[c]) :
            i # j => database[c][i].id # database[c][j].id

\* records with all but position i
Without(records, i) == SubSeq(records, 1, i - 1) \o SubSeq(records, i + 1, Len(records))

RemovedOne(c, id) ==
    /\ IF \E i \in 1..Len(database[c]) : database[c][i].id = id
       THEN \E i \in 1..Len(database[c]) :
                database[c][i].id = id /\ database'[c] = Without(database[c], i)
       ELSE database'[c] = database[c]
    /\ \A other \in Collections \ {c} : database'[other] = database[other]

\* C4: a confirmed delete removes exactly one record with the id from its
\* collection when there is one, nothing when there is none, keeps the others
\* in their order, and leaves the other collections unchanged.
C4_DeleteRemovesOne ==
    [][ /\ \A id \in DeleteIds("announcements") :
            deleteAnnouncement(id, TRUE) => RemovedOne("announcements", id)
        /\ \A id \in DeleteIds("events") :
            deleteEvent(id, TRUE) => RemovedOne("events", id)
        /\ \A id \in DeleteIds("schedules") :
            deleteSchedule(id, TRUE) => RemovedOne("schedules", id)
        /\ \A id \in DeleteIds("users") :
            deleteUser(id, TRUE) => RemovedOne("users", id)
      ]_vars

\* the user a login with form data d is to produce
ExpectedLoginUser(d) ==
    [name  |-> IF d.userType = <<"admin">> THEN <<"Admin User">> ELSE <<"Carl Kitusa">>,
     email |-> d.email, type |-> d.userType]

\* the handler has accepted form data d and its delayed callback is pending
Submitted(callback, d) ==
    /\ currentUser = Null
    /\ \E i \in 1..Len(timers) : timers[i].callback = callback /\ timers[i].formData = d

ValidLogins == {LoginData(typed) : typed \in Passing(LoginInputs, LoginData, LoginRequired)}
ValidRegistrations ==
    {RegisterData(typed) : typed \in Passing(RegisterInputs, RegisterData, RegisterRequired)}

\* C5: after a login or register form is submitted with valid fields while no
\* user is logged in, the current user eventually becomes present with the
\* submitted email and type (and the submitted name for a registration; for a
\* login "Admin User" for an administrator and "Carl Kitusa" otherwise), and
\* after that the current section becomes "dashboard".
C5_LoginLeadsToUserThenDashboard ==
    /\ \A d \in ValidLogins :
        Submitted("login", d) ~>
            (currentUser = ExpectedLoginUser(d) /\ <>(appState.currentSection = "dashboard"))
    /\ \A d \in ValidRegistrations :
        Submitted("register", d) ~>
            (currentUser = [name |-> d.name, email |-> d.email, type |-> d.userType]
                /\ <>(appState.currentSection = "dashboard"))

\* the administrator has logged in and has been taken to the dashboard
C5_Witness ==
    /\ currentUser = [name |-> <<"Admin User">>, email |-> EmailText, type |-> <<"admin">>]
    /\ appState.currentSection = "dashboard"
    /\ ~appState.isLoading
    /\ timers = << >>

\* C6: immediately after a confirmed logout() the current user is absent, the
\* inputs of all six forms are reset, and the current section is "home".
C6_LogoutClearsUserFormsSection ==
    [][logout(TRUE) =>
        /\ currentUser' = Null
        /\ \A f \in Forms : dom'.forms[f] = "reset"
        /\ appState'.currentSection = "home"
        /\ dom'.visible = {"home"}]_vars

\* somebody had logged in and typed into forms (the header still carries the
\* name), and has logged out
C6_Witness ==
    /\ currentUser = Null
    /\ dom.userHeader.name = <<"Carl Kitusa">>
    /\ dom.authButtons = "login-register"
    /\ \A f \in Forms : dom.forms[f] = "reset"
    /\ appState.currentSection = "home"

\* the day a date input's value names
DayOf(dateString) == CHOOSE d \in Days : IsoDates[d + 1] = dateString[1]

\* C7: submitting the event form with every required field filled inserts no
\* event if the submitted date is before the current local day, and inserts
\* the event at the front if it is the current local day or later, whatever
\* the local UTC offset and the time of day.  (Stated for a logged-in user,
\* whose name the event takes as organizer.)
C7_EventDateAgainstLocalDay ==
    [][\A typed \in Passing(EventInputs(now, tz), EventData, EventRequired) :
        (currentUser # Null /\ EventSubmit(typed)) =>
            IF DayOf(typed.date) < Today
            THEN database'.events = database.events
            ELSE /\ Len(database'.events) = Len(database.events) + 1
                 /\ Head(database'.events).date = typed.date
                 /\ Tail(database'.events) = database.events]_vars

\* C8: with no current user, showSection('profile') renders no profile
\* content in the profile view: no profile record fields and no name or email
\* of a previous user.
C8_NoProfileContentWithoutUser ==
    [][(currentUser = Null /\ ShowSection("profile")) =>
        /\ dom'.visible = {"profile"}
        /\ dom'.profileHeader = [name |-> NoText, role |-> NoText, email |-> NoText]
        /\ dom'.profileInfo = MarkupProfileInfo]_vars

NothingMutated ==
    /\ UNCHANGED <<database, currentUser, userProfileData, timers>>
    /\ appState'.isLoading = appState.isLoading
    /\ appState'.currentSection = appState.currentSection

\* C9: when a submission of any of the six forms fails validation (for an
\* event also the check of its date), the four
\* collections, the current user, the profile records, the loading flag and
\* the current section are unchanged and no delayed callback is scheduled.
C9_FailedValidationMutatesNothing ==
    [][ \/ NothingMutated
        \/ ~ \/ \E typed \in Failing(LoginInputs, LoginData, LoginRequired) :
                    LoginSubmit(typed)
             \/ \E typed \in Failing(RegisterInputs, RegisterData, RegisterRequired) :
                    RegisterSubmit(typed)
             \/ \E typed \in Failing(AnnouncementInputs, AnnouncementData,
                                     AnnouncementRequired) : AnnouncementSubmit(typed)
             \/ \E typed \in RejectedEvents(now, tz) : EventSubmit(typed)
             \/ \E typed \in Failing(ScheduleInputs, ScheduleData, ScheduleRequired) :
                    ScheduleSubmit(typed)
             \/ \E typed \in Failing(UserInputs, UserData, UserRequired) :
                    UserSubmit(typed)
      ]_vars

\* a student is logged in and on the dashboard, a login with a short password
\* and an event without a date have been turned down
C9_Witness ==
    /\ dom.forms.eventForm = "filled"
    /\ dom.forms.loginForm = "filled"
    /\ currentUser # Null
    /\ appState.currentSection = "dashboard"
    /\ ~appState.isLoading
    /\ timers = << >>
    /\ database = SeedDatabase

\* C10: when the session check finds a logged-in user inactive for longer
\* than the session timeout and the user confirms the re-login prompt, the
\* check ends with the user logged out: the current user absent, all forms
\* reset, the section "home".
C10_ConfirmedExpiryLogsOut ==
    [][(\E ok \in BOOLEAN : SessionLogout(ok)) =>
        /\ currentUser' = Null
        /\ \A f \in Forms : dom'.forms[f] = "reset"
        /\ appState'.currentSection = "home"]_vars

\* a confirm() answered Cancel: of a delete, of logout (from the button or
\* from the session check), of the session-timeout prompt
Declined ==
    \/ \E c \in Collections : \E id \in DeleteIds(c) : Delete(c, id, FALSE)
    \/ logout(FALSE)
    \/ SessionLogout(FALSE)
    \/ SessionExpired /\ checkSessionTimeout(FALSE)

\* C11: declining the confirmation of a delete, of logout or of the
\* session-timeout prompt is a no-op: the four collections, the current
\* user, the current section and the form inputs are unchanged.
C11_DecliningChangesNothing ==
    [][Declined =>
        /\ database' = database
        /\ currentUser' = currentUser
        /\ appState'.currentSection = appState.currentSection
        /\ dom'.visible = dom.visible
        /\ dom'.forms = dom.forms]_vars

\* an administrator with an expired session, a record of their own in the
\* store and text in a form: the state every one of the dialogs can be
\* declined in, and the state it is declined into
C11_Witness ==
    /\ Idle
    /\ SessionExpired
    /\ currentUser.type = <<"admin">>
    /\ Len(database.announcements) = 4
    /\ DeleteIds("announcements") # {0, 2}
    /\ dom.forms.loginForm = "filled"

----------------------------------------------------------------------------
(* The session as a two-state machine *)

\* C12: the current user goes from absent to present only in a step that is
\* the completion of a login or of a registration, from present to absent
\* only in a confirmed logout (from the button or from the session check),
\* and a present user is never followed by a different present user.
C12_SessionTwoStates ==
    [][/\ (currentUser = Null /\ currentUser' # Null) => (LoginDone \/ RegisterDone)
       /\ (currentUser # Null /\ currentUser' = Null) =>
              (logout(TRUE) \/ SessionLogout(TRUE))
       /\ (currentUser # Null /\ currentUser' # Null) => currentUser' = currentUser]_vars

----------------------------------------------------------------------------
(* Errors *)

\* C13: no handler ends in an uncaught exception; in particular the
\* announcement and the event form, submitted with valid fields while no
\* user is logged in, do not fail on the absent current user: the console
\* never holds an uncaught error.
C13_NoUncaughtException == dom.console = {}

----------------------------------------------------------------------------
(* Profile and sections *)

\* C14: whenever a user is logged in and the profile section shows a profile
\* record, the record is the one of the current user's role.
C14_ProfileShownIsOfCurrentRole ==
    (/\ currentUser # Null
     /\ "profile" \in dom.visible
     /\ dom.profileInfo.mode # "markup") => dom.profileInfo.role = currentUser.type

\* C15: the application starts on 'home'; a showSection(s) leaves
\* currentSection = s with s the only section shown; and in every state
\* exactly the section named by currentSection is shown, no other.
C15_OneSectionShown ==
    /\ Init => (appState.currentSection = "home" /\ dom.visible = {"home"})
    /\ [](Cardinality(dom.visible) <= 1 /\ dom.visible = {appState.currentSection})
    /\ [][\A s \in Sections : ShowSection(s) =>
            (appState'.currentSection = s /\ dom'.visible = {s})]_vars

C15_Witness ==
    /\ appState.currentSection = "profile"
    /\ dom.visible = {"profile"}
    /\ dom.activeNav = "profile"
    /\ currentUser # Null

\* C16: whenever the dashboard section is shown, its administrator part is
\* shown exactly when a user is present whose type is 'admin', and its
\* student part otherwise.
\* (Which part the page's markup shows before updateDashboard has ever run is
\* left open.)
C16_DashboardPartByRole ==
    ("dashboard" \in dom.visible /\ dom.dashboard # "markup") =>
        dom.dashboard = (IF currentUser # Null /\ currentUser.type = Admin
                         THEN "admin" ELSE "student")

----------------------------------------------------------------------------
(* Session timeout *)

\* C17: the session check asks only while a user is logged in and more than
\* 30 minutes after the last recorded activity: the logout dialog it leads to
\* on OK opens under these conditions only; every interaction signal and every
\* section change records the time; and the recorded time only ever moves to
\* the present.
C17_PromptOnlyAfterTimeout ==
    [][/\ (dialog = NoDialog /\ dialog' = LogoutDialog) =>
              (currentUser # Null /\ now - appState.lastActivity > 30 * 60 * 1000)
       /\ (UserActivity \/ Redirect \/ \E s \in Sections : ShowSection(s)) =>
              appState'.lastActivity = now
       /\ appState'.lastActivity # appState.lastActivity =>
              appState'.lastActivity = now]_vars

\* the session of a user whose last activity was after the page was loaded
\* has expired, and the prompt has been answered OK
C17_Witness ==
    /\ dialog = LogoutDialog
    /\ currentUser # Null
    /\ appState.lastActivity > LoadTime(tz)
    /\ now - appState.lastActivity > sessionTimeout

----------------------------------------------------------------------------
(* Rendered lists *)

\* C18: between handlers each of the four rendered lists holds one item per
\* record of its collection, in the collection's order, each with the delete
\* button of its record's id, and shows the placeholder exactly when the
\* collection is empty.
C18_ListsShowTheStore ==
    \A c \in Collections :
        /\ dom.lists[c].empty <=> (database[c] = << >>)
        /\ Len(dom.lists[c].items) = Len(database[c])
        /\ \A i \in 1..Len(database[c]) : dom.lists[c].items[i] = database[c][i].id

\* after a login: a user was added to the empty user list, an announcement
\* was added and the second sample announcement deleted
C18_Witness ==
    /\ currentUser # Null
    /\ Len(database.users) = 1
    /\ dom.lists.users = [empty |-> FALSE, items |-> <<database.users[1].id>>]
    /\ Len(database.announcements) = 3
    /\ dom.lists.announcements.items = <<database.announcements[1].id, 1, 3>>

----------------------------------------------------------------------------
(* Callbacks that outlive a logout *)

\* C19: after a confirmed logout the current user stays absent until a login
\* or a registration submitted after that logout completes.  A logout resets
\* both forms and only a submission fills one again, so a callback that sets
\* the user, where a user has been present before and none is now, belongs
\* to a form that has been filled since the logout.
C19_NoUserFromSubmissionBeforeLogout ==
    [][(currentUser = Null /\ dom.userHeader.name # NoText) =>
          /\ LoginDone => dom.forms.loginForm = "filled"
          /\ RegisterDone => dom.forms.registerForm = "filled"]_vars

\* C20: whenever the current section is 'dashboard' a user is logged in.
C20_DashboardOnlyWithUser ==
    appState.currentSection = "dashboard" => currentUser # Null

----------------------------------------------------------------------------
(* Who changes the store *)

\* C21: the four collections change only on behalf of an administrator: a
\* step taken while no user is logged in, or while the current user is a
\* student, leaves announcements, events, schedules and users as they were.
C21_StoreChangesOnlyForAdmin ==
    [][(currentUser = Null \/ currentUser.type = Student) => database' = database]_vars

====
